---- MODULE Spec2Model ----
(***************************************************************************)
(* Model of the pwm-gcp-genai client adapters.                             *)
(*                                                                         *)
(*   GeminiAPI  (src/gemini.go):  Invoke = InitClient, Input.ToPart for    *)
(*              every input, retryableGenerateContent, result extraction.  *)
(*   ClaudeAPI  (src/unnamed/part_000): Invoke = buildMessages,            *)
(*              invokeMessages, callClaudeModel (retry loop),              *)
(*              callClaudeModelInternal, getAccessToken (token cache under *)
(*              TokenMtx), parseResponseContent.                           *)
(*   GeminiAPI  (src/genai.go), the older file: InvokeText with the retry  *)
(*              loop that asks shouldRetry.                                *)
(*                                                                         *)
(* A behaviour exercises one client instance, invoked by one goroutine     *)
(* (Spec) or by NumProcs goroutines at once (SpecShared for ClaudeAPI,     *)
(* SpecRace for GeminiAPI).                                                *)
(* Errors are modelled as Go's wrap chains: a sequence of frames, the      *)
(* outermost first; the nil error is the empty sequence.                   *)
(***************************************************************************)
EXTENDS Integers, Sequences, FiniteSets, TLC

\* ------------------------------------------------------------------ bounds
\* largest MaxRetries a client is constructed with
MaxRetriesBound == 3
\* longest input list handed to GeminiAPI.Invoke
MaxInputs == 2

\* goroutines calling Invoke on the one ClaudeAPI
NumProcs == 2
\* how far the clock advances
MaxTime == 2
\* the life, in ticks of the clock, of a token the provider issues
TokenTTL == 1
\* longest img_paths list handed to ClaudeAPI.Invoke
MaxImgs == 2
\* longest messages list handed to ClaudeAPI.invokeMessages
MaxMsgs == 2

Procs == 1..NumProcs

\* ------------------------------------------------------------------ errors
NoErr == <<>>

Frame(m, k) == [msg |-> m, n |-> k]

\* fmt.Errorf("...: %w", err): a new outermost frame around err
Wrap(m, k, err) == <<Frame(m, k)>> \o err

\* errors.Unwrap down to the innermost error
RootCause(err) == err[Len(err)]

\* the backend's answers to one attempt: a status code, or a transport failure
RetryableStatuses == {429, 529}
FatalStatuses == {400}

BackendErr(status) == <<Frame("status", status)>>
TransportErr == <<Frame("transport", 0)>>

\* a status 400 whose text quotes the number 429
QuotingErr == <<Frame("status", 400), Frame("quota of 429 requests", 0)>>

\* the ctx of the call is past its deadline
DeadlineErr == <<Frame("context deadline exceeded", 0)>>

\* the errors one backend attempt can end with
AttemptErrors ==
    {BackendErr(s) : s \in RetryableStatuses \cup FatalStatuses} \cup {TransportErr, QuotingErr}

\* the backend overload / rate-limit class of the specification (sections 4.3, 7)
IsOverload(err) ==
    /\ err # NoErr
    /\ RootCause(err).msg = "status"
    /\ RootCause(err).n \in RetryableStatuses

\* the class of one attempt's outcome, kept in the attempt histories
Class(err) ==
    IF err = NoErr THEN "ok"
    ELSE IF IsOverload(err) THEN "retryable"
    ELSE IF RootCause(err) = RootCause(DeadlineErr) THEN "deadline"
    ELSE "fatal"

\* the numbers that the text of err, err.Error(), shows
NumbersIn(err) ==
    {err[j].n : j \in 1..Len(err)}
        \cup {429 : j \in {k \in 1..Len(err) : err[k].msg = "quota of 429 requests"}}

\* shouldRetry of genai.go: strings.Contains(err.Error(), "429") or "529"
shouldRetry(err) == err # NoErr /\ (429 \in NumbersIn(err) \/ 529 \in NumbersIn(err))

\* ------------------------------------------------------- inputs and parts
\* A path is the string BlobInput.Path, kept as the pieces the code looks at:
\* its scheme prefix, its base name and its extension.
Path(s, b, e) == [scheme |-> s, base |-> b, ext |-> e]

TextInput(t) == [kind |-> "text", text |-> t, path |-> Path("", "", "")]
BlobInput(p) == [kind |-> "blob", text |-> "", path |-> p]

OctetStream == "application/octet-stream"

\* file contents: an identity and what http.DetectContentType sniffs from them
Data(i, s) == [id |-> i, sniff |-> s]
NoData == Data("", "")

\* the world outside the process, fixed for a behaviour: what os.ReadFile,
\* http.Get and the object's metadata answer for each path
LocalJpeg == Path("local", "test1", ".jpeg")
LocalRaw == Path("local", "blob", "")
LocalMissing == Path("local", "gone", ".png")
RemotePng == Path("http", "pic", ".png")
RemoteGone == Path("http", "gone", ".png")
ObjectMp4 == Path("gs", "video", ".mp4")
LocalBare == Path("local", "photo", "")
LocalShot == Path("local", "shot", ".png")
RemoteShot == Path("http", "shot", ".png")
RemoteDump == Path("http", "dump", ".mp4")
ObjectClip == Path("gs", "clip", ".png")
ObjectUntyped == Path("gs", "untyped", ".png")
ObjectBare == Path("gs", "bare", "")
ObjectGone == Path("gs", "gone", ".mp4")

\* mime.TypeByExtension
TypeByExtension(ext) ==
    CASE ext = ".jpeg" -> "image/jpeg"
      [] ext = ".png" -> "image/png"
      [] ext = ".mp4" -> "video/mp4"
      [] OTHER -> ""

\* os.ReadFile of a local path: [err, data]
ReadFile(p) ==
    CASE p \in {LocalJpeg, LocalBare, LocalShot} ->
            [err |-> NoErr, data |-> Data("jpegBytes", "image/jpeg")]
      [] p = LocalRaw -> [err |-> NoErr, data |-> Data("rawBytes", OctetStream)]
      [] OTHER -> [err |-> <<Frame("no such file", 0)>>, data |-> NoData]

\* http.Get of a remote path: the status code and the body
HttpGet(p) ==
    CASE p = RemotePng -> [status |-> 200, data |-> Data("pngBytes", "image/png")]
      [] p = RemoteShot -> [status |-> 200, data |-> Data("jpegBytes", "image/jpeg")]
      [] p = RemoteDump -> [status |-> 200, data |-> Data("rawBytes", OctetStream)]
      [] OTHER -> [status |-> 404, data |-> NoData]

\* obj.Attrs of an object-store path: the stored content type
ObjectAttrs(p) ==
    CASE p \in {ObjectMp4, ObjectClip} -> [err |-> NoErr, contentType |-> "video/mp4"]
      [] p \in {ObjectUntyped, ObjectBare} -> [err |-> NoErr, contentType |-> ""]
      [] OTHER -> [err |-> <<Frame("object not found", 0)>>, contentType |-> ""]

NoPart == [kind |-> "none", mime |-> "", data |-> NoData, text |-> "", uri |-> Path("", "", "")]
TextPart(t) == [NoPart EXCEPT !.kind = "text", !.text = t]
BlobPart(m, d) == [NoPart EXCEPT !.kind = "blob", !.mime = m, !.data = d]
FileDataPart(m, u) == [NoPart EXCEPT !.kind = "fileData", !.mime = m, !.uri = u]

\* a slip of getGCSFileMimeTypeFromMetadata: the extension is asked first
getGCSFileMimeTypeFromExtension(p) ==
    LET attrs == ObjectAttrs(p) IN
    IF attrs.err # NoErr
    THEN [err |-> Wrap("failed to get GCS object attributes", 0, attrs.err), mime |-> ""]
    ELSE [err |-> NoErr,
          mime |-> IF TypeByExtension(p.ext) = "" THEN attrs.contentType ELSE TypeByExtension(p.ext)]

\* getGCSFileMimeTypeFromMetadata: [err, mime]
getGCSFileMimeTypeFromMetadata(p) ==
    LET attrs == ObjectAttrs(p) IN
    IF attrs.err # NoErr
    THEN [err |-> Wrap("failed to get GCS object attributes", 0, attrs.err), mime |-> ""]
    ELSE [err |-> NoErr,
          mime |-> IF attrs.contentType = "" THEN TypeByExtension(p.ext) ELSE attrs.contentType]

\* what can go wrong while a remote blob is fetched: http.Get fails, the temp
\* file cannot be created, io.Copy fails, the temp file cannot be read back
Faults == {"none", "transport", "createTemp", "copy", "reread"}

\* os.Remove(f) on the temp files fs; removing a file that is not there
\* answers an error the callers drop
RemoveFile(fs, f) == fs \ {f}

\* downloadFile: [err, data, file, fs, made]. fs are the temp files that exist,
\* file the name os.CreateTemp gives (`name`, a fresh one), data what the file
\* holds, made how many temp files the call created
downloadFile(p, fault, fs, name) ==
    LET resp == HttpGet(p) IN
    IF fault = "transport"
    THEN [err |-> <<Frame("Get: connection refused", 0)>>, data |-> NoData, file |-> 0,
          fs |-> fs, made |-> 0]
    ELSE IF resp.status < 200 \/ resp.status >= 300
    THEN [err |-> <<Frame("failed to download file, status code", resp.status)>>,
          data |-> NoData, file |-> 0, fs |-> fs, made |-> 0]
    ELSE IF fault = "createTemp"
    THEN [err |-> <<Frame("CreateTemp failed", 0)>>, data |-> NoData, file |-> 0,
          fs |-> fs, made |-> 0]
    ELSE IF fault = "copy"
    THEN [err |-> <<Frame("copy failed", 0)>>, data |-> NoData, file |-> 0,
          fs |-> RemoveFile(fs \cup {name}, name), made |-> 1]
    ELSE [err |-> NoErr, data |-> resp.data, file |-> name, fs |-> fs \cup {name}, made |-> 1]

\* a slip of DeferredRemove: the temp file is removed on the success path only
RemoveOnSuccessOnly(fs, file, err) == IF err = NoErr THEN RemoveFile(fs, file) ELSE fs

\* defer os.Remove(tmpFile): runs on every return of ToPart after the download,
\* whatever err that return carries
DeferredRemove(fs, file, err) == RemoveFile(fs, file)

\* a slip of InferMime: the extension is asked first, the bytes second
InferMimeExtensionFirst(d, p) ==
    IF TypeByExtension(p.ext) # "" THEN TypeByExtension(p.ext) ELSE d.sniff

\* sniff first, fall back to the extension on the generic type
InferMime(d, p) == IF d.sniff = OctetStream THEN TypeByExtension(p.ext) ELSE d.sniff

\* Input.ToPart (TextInput.ToPart and BlobInput.ToPart): [err, part, fs, made]
ToPart(in, fault, fs, name) ==
    IF in.kind = "text" THEN [err |-> NoErr, part |-> TextPart(in.text), fs |-> fs, made |-> 0]
    ELSE IF in.path.scheme = "gs" THEN
        LET m == getGCSFileMimeTypeFromMetadata(in.path) IN
        IF m.err # NoErr
        THEN [err |-> Wrap("failed to get GCS file mime type", 0, m.err), part |-> NoPart,
              fs |-> fs, made |-> 0]
        ELSE [err |-> NoErr, part |-> FileDataPart(m.mime, in.path), fs |-> fs, made |-> 0]
    ELSE IF in.path.scheme = "http" THEN
        LET dl == downloadFile(in.path, fault, fs, name) IN
        IF dl.err # NoErr
        THEN [err |-> Wrap("failed to download file", 0, dl.err), part |-> NoPart,
              fs |-> dl.fs, made |-> dl.made]
        ELSE LET rdErr == IF fault = "reread" THEN <<Frame("read failed", 0)>> ELSE NoErr IN
             IF rdErr # NoErr
             THEN [err |-> Wrap("failed to read downloaded file", 0, rdErr), part |-> NoPart,
                   fs |-> DeferredRemove(dl.fs, dl.file, rdErr), made |-> dl.made]
             ELSE [err |-> NoErr, part |-> BlobPart(InferMime(dl.data, in.path), dl.data),
                   fs |-> DeferredRemove(dl.fs, dl.file, NoErr), made |-> dl.made]
    ELSE
        LET rd == ReadFile(in.path) IN
        IF rd.err # NoErr
        THEN [err |-> Wrap("failed to read file", 0, rd.err), part |-> NoPart, fs |-> fs, made |-> 0]
        ELSE [err |-> NoErr, part |-> BlobPart(InferMime(rd.data, in.path), rd.data),
              fs |-> fs, made |-> 0]

\* what Input.ToPart answers when nothing faults: [err, part]
Resolution(in) ==
    LET r == ToPart(in, "none", {}, 1) IN [err |-> r.err, part |-> r.part]

\* the inputs a caller hands to Invoke
InputSet ==
    {TextInput("a"), TextInput("b")} \cup {BlobInput(p) : p \in {LocalJpeg, LocalRaw, LocalMissing, RemotePng, RemoteGone, ObjectMp4}}

SeqsUpTo(S, n) == UNION {[1..k -> S] : k \in 0..n}

\* ---------------------------------------------------------------- GeminiAPI
VARIABLES
    gFile,        \* the file the GeminiAPI is built from: "gemini.go" or "genai.go"
    gMaxRetries,  \* a.MaxRetries
    gRetryDelay,  \* a.RetryDelay
    gClient,      \* a.Client: 0 for nil, else which of the clients created it is
    gStores,      \* how many times a.Client has been assigned
    gTmp,         \* the temp files that exist
    gCreated,     \* how many temp files have been created
    gPc,          \* where each goroutine's Invoke stands ("off": it makes none)
    gInputs,      \* the inputs of its call
    gIdx,         \* the position of its loop over inputs
    gCalls,       \* how many ToPart calls it has made
    gParts,       \* parts
    gSent,        \* the parts of its latest GenerateContent call
    gRetry,       \* retry, the loop variable of retryableGenerateContent
    gResp,        \* resp of retryableGenerateContent
    gErr,         \* err of retryableGenerateContent
    gExpired,     \* whether the deadline of its ctx has passed
    gOutcomes,    \* the class of every attempt it made so far, in order
    gSleeps,      \* the backoff sleeps it has taken: their durations, in order
    gRet          \* what its Invoke returned: [str, err]

gvars == <<gFile, gMaxRetries, gRetryDelay, gClient, gStores, gTmp, gCreated, gPc, gInputs, gIdx,
           gCalls, gParts, gSent, gRetry, gResp, gErr, gExpired, gOutcomes, gSleeps, gRet>>

\* the one ClaudeAPI and the goroutines invoking it
VARIABLES
    cMaxRetries,   \* a.MaxRetries
    cRetryDelay,   \* a.RetryDelay
    token,         \* a.Token
    mtx,           \* a.TokenMtx: 0 when free, else the goroutine holding it
    now,           \* time.Now()
    issued,        \* how many tokens the credential provider has issued
    provContacts,  \* how many times the credential provider has been contacted
    provFails,     \* how many of these contacts failed
    cPc,           \* where each goroutine's Invoke stands ("off": it makes none)
    cIn,           \* the arguments of its Invoke: [prompts, imgs]
    cMsgs,         \* messages, the argument of its invokeMessages
    cReads,        \* how many image files its buildMessages has read
    cPayload,      \* payloadBytes, the request it built
    cI,            \* i, the loop variable of callClaudeModel
    cTok,          \* token of callClaudeModelInternal
    cBody,         \* body of callClaudeModel
    cErr,          \* err of callClaudeModel
    cOutcomes,     \* the class of every attempt it made so far, in order
    cSleeps,       \* the backoff sleeps it has taken: their durations, in order
    cCall,         \* its latest getAccessToken call: what it saw and did
    cRet           \* what its Invoke returned: [str, err]

cvars == <<cMaxRetries, cRetryDelay, token, mtx, now, issued, provContacts, provFails, cPc, cIn, cMsgs,
           cReads, cPayload, cI, cTok, cBody, cErr, cOutcomes, cSleeps, cCall, cRet>>

\* a response: which attempt produced it (0: the nil pointer) and Candidates[i].Content.Parts
NilResp == [id |-> 0, candidates |-> <<>>]
CandidateSets == {<<>>, <<<<>>>>, <<<<"Hello">>>>, <<<<"Hello", "world">>>>}

\* what model.GenerateContent can answer on one attempt, its context permitting
AttemptOutcomes ==
    {[err |-> NoErr, candidates |-> c] : c \in CandidateSets}
        \cup {[err |-> e, candidates |-> <<>>] : e \in AttemptErrors}

\* the answers of the collaborators of a GeminiAPI that a behaviour draws from:
\* those of GenerateContent, and the faults of a download
GeminiWorld(o, f) == [outcomes |-> o, faults |-> f]

\* a Go string built from pieces: the sequence of its pieces ("" is <<>>)
Str(t) == <<t>>
NoStr == <<>>

NoRet == [str |-> NoStr, err |-> NoErr]

GeminiOff ==
    /\ gFile = "gemini.go"
    /\ gMaxRetries = 0
    /\ gRetryDelay = 1
    /\ gClient = 0
    /\ gStores = 0
    /\ gTmp = {}
    /\ gCreated = 0
    /\ gPc = [p \in Procs |-> "off"]
    /\ gInputs = [p \in Procs |-> <<>>]
    /\ gIdx = [p \in Procs |-> 1]
    /\ gCalls = [p \in Procs |-> 0]
    /\ gParts = [p \in Procs |-> <<>>]
    /\ gSent = [p \in Procs |-> <<>>]
    /\ gRetry = [p \in Procs |-> 0]
    /\ gResp = [p \in Procs |-> NilResp]
    /\ gErr = [p \in Procs |-> NoErr]
    /\ gExpired = [p \in Procs |-> FALSE]
    /\ gOutcomes = [p \in Procs |-> <<>>]
    /\ gSleeps = [p \in Procs |-> <<>>]
    /\ gRet = [p \in Procs |-> NoRet]

\* NewGeminiAPI of `file`, and the goroutines of `callers` about to call Invoke
\* (InvokeText in genai.go), each with inputs from `inputs`
NewGeminiAPI(file, callers, inputs, retries, delays) ==
    /\ gFile = file
    /\ gMaxRetries \in retries
    /\ gRetryDelay \in delays
    /\ gClient = 0
    /\ gStores = 0
    /\ gTmp = {}
    /\ gCreated = 0
    /\ gPc = [p \in Procs |-> IF p \in callers THEN "InitClient" ELSE "off"]
    /\ \E f \in [callers -> inputs] : gInputs = [p \in Procs |-> IF p \in callers THEN f[p] ELSE <<>>]
    /\ gIdx = [p \in Procs |-> 1]
    /\ gCalls = [p \in Procs |-> 0]
    /\ gParts = [p \in Procs |-> <<>>]
    /\ gSent = [p \in Procs |-> <<>>]
    /\ gRetry = [p \in Procs |-> 0]
    /\ gResp = [p \in Procs |-> NilResp]
    /\ gErr = [p \in Procs |-> NoErr]
    /\ gExpired = [p \in Procs |-> FALSE]
    /\ gOutcomes = [p \in Procs |-> <<>>]
    /\ gSleeps = [p \in Procs |-> <<>>]
    /\ gRet = [p \in Procs |-> NoRet]

\* where Invoke goes once the client is there: the loop over inputs in
\* gemini.go, the one text part of InvokeText in genai.go
AfterInitClient(file) == IF file = "genai.go" THEN "Text" ELSE "ToPart"

\* InitClient, the test a.Client != nil
InitClient_Check(p) ==
    /\ gPc[p] = "InitClient"
    /\ gPc' = [gPc EXCEPT ![p] = IF gClient # 0 THEN AfterInitClient(gFile) ELSE "NewClient"]
    /\ UNCHANGED <<gFile, gMaxRetries, gRetryDelay, gClient, gStores, gTmp, gCreated, gInputs, gIdx,
                   gCalls, gParts, gSent, gRetry, gResp, gErr, gExpired, gOutcomes, gSleeps, gRet>>
    /\ UNCHANGED cvars

\* InitClient, genai.NewClient and the assignment a.Client = client; on an
\* error Invoke returns it
InitClient_New(p) ==
    /\ gPc[p] = "NewClient"
    /\ \E newErr \in {NoErr, <<Frame("dial failed", 0)>>} :
        IF newErr # NoErr
        THEN /\ gRet' = [gRet EXCEPT ![p] =
                    [str |-> NoStr, err |-> Wrap("failed to create client", 0, newErr)]]
             /\ gPc' = [gPc EXCEPT ![p] = "done"]
             /\ UNCHANGED <<gClient, gStores>>
        ELSE /\ gClient' = gStores + 1
             /\ gStores' = gStores + 1
             /\ gPc' = [gPc EXCEPT ![p] = AfterInitClient(gFile)]
             /\ gRet' = gRet
    /\ UNCHANGED <<gFile, gMaxRetries, gRetryDelay, gTmp, gCreated, gInputs, gIdx,
                   gCalls, gParts, gSent, gRetry, gResp, gErr, gExpired, gOutcomes, gSleeps>>
    /\ UNCHANGED cvars

\* a slip of AppendPart: the new part goes in front
PrependPart(parts, part) == <<part>> \o parts

\* parts = append(parts, part)
AppendPart(parts, part) == Append(parts, part)

\* a slip of ResolveStep: the error of ToPart is dropped and its part kept
ResolveStepIgnoringErr(err) == "append"

\* what the loop over inputs does with the answer of ToPart
ResolveStep(err) == IF err # NoErr THEN "return" ELSE "append"

\* Invoke, one round of the loop over inputs
Invoke_ToPart(p, w) ==
    /\ gPc[p] = "ToPart"
    /\ gIdx[p] <= Len(gInputs[p])
    /\ \E fault \in w.faults :
        LET r == ToPart(gInputs[p][gIdx[p]], fault, gTmp, gCreated + 1) IN
        /\ gCalls' = [gCalls EXCEPT ![p] = @ + 1]
        /\ gTmp' = r.fs
        /\ gCreated' = gCreated + r.made
        /\ IF ResolveStep(r.err) = "return"
           THEN /\ gRet' = [gRet EXCEPT ![p] = [str |-> NoStr, err |-> r.err]]
                /\ gPc' = [gPc EXCEPT ![p] = "done"]
                /\ UNCHANGED <<gParts, gIdx>>
           ELSE /\ gParts' = [gParts EXCEPT ![p] = AppendPart(@, r.part)]
                /\ gIdx' = [gIdx EXCEPT ![p] = @ + 1]
                /\ UNCHANGED <<gRet, gPc>>
    /\ UNCHANGED <<gFile, gMaxRetries, gRetryDelay, gClient, gStores, gInputs, gSent, gRetry, gResp,
                   gErr, gExpired, gOutcomes, gSleeps>>
    /\ UNCHANGED cvars

\* Invoke, the loop over inputs is over: call retryableGenerateContent
Invoke_Generate(p) ==
    /\ gPc[p] = "ToPart"
    /\ gIdx[p] > Len(gInputs[p])
    /\ gPc' = [gPc EXCEPT ![p] = "retry"]
    /\ gRetry' = [gRetry EXCEPT ![p] = 0]
    /\ UNCHANGED <<gFile, gMaxRetries, gRetryDelay, gClient, gStores, gTmp, gCreated, gInputs, gIdx,
                   gCalls, gParts, gSent, gResp, gErr, gExpired, gOutcomes, gSleeps, gRet>>
    /\ UNCHANGED cvars

\* InvokeText of genai.go: call retryableGenerateContent with genai.Text(prompt)
InvokeText_Generate(p) ==
    /\ gPc[p] = "Text"
    /\ gParts' = [gParts EXCEPT ![p] = <<TextPart(gInputs[p][1].text)>>]
    /\ gIdx' = [gIdx EXCEPT ![p] = 2]
    /\ gPc' = [gPc EXCEPT ![p] = "retry"]
    /\ gRetry' = [gRetry EXCEPT ![p] = 0]
    /\ UNCHANGED <<gFile, gMaxRetries, gRetryDelay, gClient, gStores, gTmp, gCreated, gInputs,
                   gCalls, gSent, gResp, gErr, gExpired, gOutcomes, gSleeps, gRet>>
    /\ UNCHANGED cvars

\* a slip of retryStep: the last retry is never made
retryStepOffByOne(err, retry, maxRetries) ==
    IF err = NoErr THEN "break"
    ELSE IF retry + 1 < maxRetries THEN "sleep"
    ELSE "exhausted"

\* a slip of retryStep: a success does not leave the loop while retries remain
retryStepNoBreak(err, retry, maxRetries) ==
    IF retry < maxRetries THEN "sleep"
    ELSE IF err = NoErr THEN "break"
    ELSE "exhausted"

\* what one round of the retry loop does with the answer of GenerateContent
retryStep(err, retry, maxRetries) ==
    IF err = NoErr THEN "break"
    ELSE IF retry < maxRetries THEN "sleep"
    ELSE "exhausted"

\* the same round in genai.go, where shouldRetry decides first
retryStepGenai(err, retry, maxRetries) ==
    IF err = NoErr THEN "break"
    ELSE IF shouldRetry(err)
    THEN IF retry < maxRetries THEN "sleep" ELSE "exhausted"
    ELSE "failed"

\* err of retryableGenerateContent after a round that took `step`
retryErr(step, err, maxRetries) ==
    CASE step = "exhausted" -> Wrap("max retries reached after %d attempts", maxRetries, err)
      [] step = "failed" -> Wrap("generate content failed", 0, err)
      [] OTHER -> err

\* what GenerateContent(ctx, ...) can answer: past the deadline of ctx the
\* deadline error alone, and before it that error too, the deadline passing
\* while the attempt is in flight. The ctx of genai.go has no deadline.
ContextOutcomes(file, expired, outcomes) ==
    IF expired THEN {[err |-> DeadlineErr, candidates |-> <<>>]}
    ELSE IF file = "genai.go" THEN outcomes
    ELSE outcomes \cup {[err |-> DeadlineErr, candidates |-> <<>>]}

\* retryableGenerateContent, one round of the loop up to its sleep
retryableGenerateContent_Attempt(p, w) ==
    /\ gPc[p] = "retry"
    /\ gRetry[p] <= gMaxRetries
    /\ \E out \in ContextOutcomes(gFile, gExpired[p], w.outcomes) :
        LET step == IF gFile = "genai.go"
                    THEN retryStepGenai(out.err, gRetry[p], gMaxRetries)
                    ELSE retryStep(out.err, gRetry[p], gMaxRetries)
        IN
        /\ gSent' = [gSent EXCEPT ![p] = gParts[p]]
        /\ gExpired' = [gExpired EXCEPT ![p] = @ \/ out.err = DeadlineErr]
        /\ gOutcomes' = [gOutcomes EXCEPT ![p] = Append(@, Class(out.err))]
        /\ gResp' = [gResp EXCEPT ![p] =
                IF out.err = NoErr
                THEN [id |-> Len(gOutcomes[p]) + 1, candidates |-> out.candidates]
                ELSE NilResp]
        /\ gErr' = [gErr EXCEPT ![p] = retryErr(step, out.err, gMaxRetries)]
        /\ gPc' = [gPc EXCEPT ![p] = IF step = "sleep" THEN "sleep" ELSE "returned"]
    /\ UNCHANGED <<gFile, gMaxRetries, gRetryDelay, gClient, gStores, gTmp, gCreated, gInputs, gIdx,
                   gCalls, gParts, gRetry, gSleeps, gRet>>
    /\ UNCHANGED cvars

RECURSIVE Pow2(_)
\* math.Pow(2, float64(i)) for the i of the loops
Pow2(i) == IF i <= 0 THEN 1 ELSE 2 * Pow2(i - 1)

\* a slip of Delay: the delay grows by one RetryDelay a round
DelayLinear(retryDelay, i) == retryDelay * (i + 1)

\* a.RetryDelay * time.Duration(math.Pow(2, float64(i)))
Delay(retryDelay, i) == retryDelay * Pow2(i)

\* retryableGenerateContent, time.Sleep(delay) to its end; continue
retryableGenerateContent_Sleep(p) ==
    /\ gPc[p] = "sleep"
    /\ gSleeps' = [gSleeps EXCEPT ![p] = Append(@, Delay(gRetryDelay, gRetry[p]))]
    /\ gRetry' = [gRetry EXCEPT ![p] = @ + 1]
    /\ gPc' = [gPc EXCEPT ![p] = "retry"]
    /\ UNCHANGED <<gFile, gMaxRetries, gRetryDelay, gClient, gStores, gTmp, gCreated, gInputs, gIdx,
                   gCalls, gParts, gSent, gResp, gErr, gExpired, gOutcomes, gRet>>
    /\ UNCHANGED cvars

\* the deadline of the ctx of Invoke (context.WithTimeout) passes while the
\* goroutine is in time.Sleep; the deadline passing elsewhere shows at the next
\* GenerateContent and is part of retryableGenerateContent_Attempt
Deadline(p) ==
    /\ gPc[p] = "sleep"
    /\ gFile = "gemini.go"
    /\ ~gExpired[p]
    /\ gExpired' = [gExpired EXCEPT ![p] = TRUE]
    /\ UNCHANGED <<gFile, gMaxRetries, gRetryDelay, gClient, gStores, gTmp, gCreated, gPc, gInputs,
                   gIdx, gCalls, gParts, gSent, gRetry, gResp, gErr, gOutcomes, gSleeps, gRet>>
    /\ UNCHANGED cvars

\* retryableGenerateContent, the loop condition fails: return resp, nil
retryableGenerateContent_Exit(p) ==
    /\ gPc[p] = "retry"
    /\ gRetry[p] > gMaxRetries
    /\ gErr' = [gErr EXCEPT ![p] = NoErr]
    /\ gPc' = [gPc EXCEPT ![p] = "returned"]
    /\ UNCHANGED <<gFile, gMaxRetries, gRetryDelay, gClient, gStores, gTmp, gCreated, gInputs, gIdx,
                   gCalls, gParts, gSent, gRetry, gResp, gExpired, gOutcomes, gSleeps, gRet>>
    /\ UNCHANGED cvars

\* Invoke, from the return of retryableGenerateContent to its own return
Invoke_Result(p) ==
    /\ gPc[p] = "returned"
    /\ IF gErr[p] # NoErr
       THEN /\ gRet' = [gRet EXCEPT ![p] =
                    [str |-> NoStr, err |-> Wrap("failed to generate content", 0, gErr[p])]]
            /\ gPc' = [gPc EXCEPT ![p] = "done"]
       ELSE IF gResp[p] = NilResp
       THEN gRet' = gRet /\ gPc' = [gPc EXCEPT ![p] = "panic"]
       ELSE IF Len(gResp[p].candidates) = 0 \/ Len(gResp[p].candidates[1]) = 0
       THEN /\ gRet' = [gRet EXCEPT ![p] =
                    [str |-> NoStr, err |-> <<Frame("no response content found", 0)>>]]
            /\ gPc' = [gPc EXCEPT ![p] = "done"]
       ELSE /\ gRet' = [gRet EXCEPT ![p] = [str |-> Str(gResp[p].candidates[1][1]), err |-> NoErr]]
            /\ gPc' = [gPc EXCEPT ![p] = "done"]
    /\ UNCHANGED <<gFile, gMaxRetries, gRetryDelay, gClient, gStores, gTmp, gCreated, gInputs, gIdx,
                   gCalls, gParts, gSent, gRetry, gResp, gErr, gExpired, gOutcomes, gSleeps>>
    /\ UNCHANGED cvars

GeminiNext(w) ==
    \/ \E p \in Procs : InitClient_Check(p)
    \/ \E p \in Procs : InitClient_New(p)
    \/ \E p \in Procs : Invoke_ToPart(p, w)
    \/ \E p \in Procs : Invoke_Generate(p)
    \/ \E p \in Procs : InvokeText_Generate(p)
    \/ \E p \in Procs : retryableGenerateContent_Attempt(p, w)
    \/ \E p \in Procs : retryableGenerateContent_Sleep(p)
    \/ \E p \in Procs : Deadline(p)
    \/ \E p \in Procs : retryableGenerateContent_Exit(p)
    \/ \E p \in Procs : Invoke_Result(p)

\* ---------------------------------------------------------------- ClaudeAPI

\* *oauth2.Token; access 0 is the nil pointer
Token(a, e) == [access |-> a, expiry |-> e]
NilToken == Token(0, 0)

\* content items of a message and segments of a response
ContentText(t) == [type |-> "text", text |-> t, data |-> NoData]
ContentImage(d) == [type |-> "image", text |-> "", data |-> d]
Message(r, c) == [role |-> r, contents |-> c]

NoRequest == [system |-> NoStr, messages |-> <<>>]
NoBody == [id |-> 0, wellFormed |-> TRUE, content |-> <<>>]

\* a response segment; textOk is whether its "text" field holds a string
Segment(ty, tx, ok) == [type |-> ty, text |-> tx, textOk |-> ok]

NoCall == [done |-> FALSE, cached |-> NilToken, at |-> 0, contacted |-> FALSE, access |-> 0]

\* the images a prompt may come with
ClaudeInputs(maxImgs) ==
    {[prompts |-> <<"describe">>, imgs |-> i] : i \in SeqsUpTo({LocalJpeg, LocalMissing}, maxImgs)}

RECURSIVE ReadImages(_, _, _)
\* the loop of buildMessages over img_paths from position k on: [err, contents, reads]
ReadImages(paths, k, contents) ==
    IF k > Len(paths) THEN [err |-> NoErr, contents |-> contents, reads |-> k - 1]
    ELSE LET rd == ReadFile(paths[k]) IN
         IF rd.err # NoErr
         THEN [err |-> Wrap("failed to read image file", 0, rd.err), contents |-> <<>>, reads |-> k]
         ELSE ReadImages(paths, k + 1, Append(contents, ContentImage(rd.data)))

\* ClaudeAPI.buildMessages: [err, messages, reads]
buildMessages(prompts, imgs) ==
    LET texts == [j \in 1..Len(prompts) |-> ContentText(prompts[j])]
        r == ReadImages(imgs, 1, texts)
    IN  IF r.err # NoErr
        THEN [err |-> r.err, messages |-> <<>>, reads |-> r.reads]
        ELSE [err |-> NoErr, messages |-> <<Message("user", r.contents)>>, reads |-> r.reads]

RECURSIVE extractSystemTextFrom(_, _)
extractSystemTextFrom(contents, k) ==
    IF k > Len(contents)
    THEN [err |-> <<Frame("system message must contain text content", 0)>>, text |-> NoStr]
    ELSE IF contents[k].type = "text" THEN [err |-> NoErr, text |-> Str(contents[k].text)]
    ELSE extractSystemTextFrom(contents, k + 1)

\* a slip of extractSystemText: a system message without text gives "" and no error
extractSystemTextLenient(contents) ==
    [err |-> NoErr, text |-> extractSystemTextFrom(contents, 1).text]

\* ClaudeAPI.extractSystemText: [err, text]
extractSystemText(contents) == extractSystemTextFrom(contents, 1)

RECURSIVE buildClaudeRequestFrom(_, _, _)
buildClaudeRequestFrom(messages, k, request) ==
    IF k > Len(messages) THEN [err |-> NoErr, request |-> request]
    ELSE IF messages[k].role = "system"
    THEN LET sys == extractSystemText(messages[k].contents) IN
         IF sys.err # NoErr THEN [err |-> sys.err, request |-> NoRequest]
         ELSE buildClaudeRequestFrom(messages, k + 1, [request EXCEPT !.system = sys.text])
    ELSE buildClaudeRequestFrom(messages, k + 1,
            [request EXCEPT !.messages = Append(@, messages[k])])

\* ClaudeAPI.buildClaudeRequest: [err, request]
buildClaudeRequest(messages) == buildClaudeRequestFrom(messages, 1, NoRequest)

RECURSIVE TextsOf(_, _, _)
\* the loop of parseResponseContent from segment k on: [err, contents]
TextsOf(content, k, contents) ==
    IF k > Len(content) THEN [err |-> NoErr, contents |-> contents]
    ELSE IF content[k].type = "text"
    THEN IF ~content[k].textOk
         THEN [err |-> <<Frame("invalid text content format", 0)>>, contents |-> <<>>]
         ELSE TextsOf(content, k + 1, Append(contents, content[k].text))
    ELSE TextsOf(content, k + 1, contents)

\* a slip of Join: the elements one after the other, nothing between them
JoinNoSep(elems, sep) == elems

RECURSIVE Join(_, _)
\* strings.Join(elems, sep)
Join(elems, sep) ==
    IF Len(elems) = 0 THEN NoStr
    ELSE IF Len(elems) = 1 THEN Str(elems[1])
    ELSE Str(elems[1]) \o Str(sep) \o Join(Tail(elems), sep)

\* ClaudeAPI.parseResponseContent: [err, str]
parseResponseContent(content) ==
    LET t == TextsOf(content, 1, <<>>) IN
    IF t.err # NoErr THEN [err |-> t.err, str |-> NoStr]
    ELSE [err |-> NoErr, str |-> Join(t.contents, "\n")]

\* the bodies a 200 answer can carry
HelloBody == [wellFormed |-> TRUE, content |-> <<Segment("text", "Hello", TRUE)>>]

BodySet ==
    {[wellFormed |-> TRUE, content |-> c] :
        c \in {<<>>,
               <<Segment("text", "Hello", TRUE), Segment("text", "world", TRUE)>>,
               <<Segment("tool_use", "", FALSE), Segment("text", "Hello", TRUE)>>,
               <<Segment("text", "Hello", TRUE), Segment("tool_use", "", FALSE),
                 Segment("text", "world", TRUE)>>,
               <<Segment("text", "", FALSE)>>}}
        \cup {HelloBody, [wellFormed |-> FALSE, content |-> <<>>]}

\* what one POST can answer: a 200 with one of `bodies`, or one of `errs`
PostOutcomes(bodies, errs) ==
    {[err |-> NoErr, body |-> b] : b \in bodies}
        \cup {[err |-> e, body |-> [wellFormed |-> TRUE, content |-> <<>>]] : e \in errs}

\* what the credential provider can answer: an error of FindDefaultCredentials
\* or of TokenSource.Token, or a token living ttl ticks
CredsErr == <<Frame("could not find default credentials", 0)>>
TokenSourceErr == <<Frame("token source failed", 0)>>

ProviderOutcomes(errs) ==
    {[err |-> e, ttl |-> 0] : e \in errs} \cup {[err |-> NoErr, ttl |-> TokenTTL]}

\* the answers of the two collaborators that a behaviour draws from
World(b, e, c) == [bodies |-> b, errs |-> e, credErrs |-> c]

ClaudeOff ==
    /\ cMaxRetries = 0
    /\ cRetryDelay = 1
    /\ token = NilToken
    /\ mtx = 0
    /\ now = 0
    /\ issued = 0
    /\ provContacts = 0
    /\ provFails = 0
    /\ cPc = [p \in Procs |-> "off"]
    /\ cIn = [p \in Procs |-> [prompts |-> <<>>, imgs |-> <<>>]]
    /\ cMsgs = [p \in Procs |-> <<>>]
    /\ cReads = [p \in Procs |-> 0]
    /\ cPayload = [p \in Procs |-> NoRequest]
    /\ cI = [p \in Procs |-> 0]
    /\ cTok = [p \in Procs |-> 0]
    /\ cBody = [p \in Procs |-> NoBody]
    /\ cErr = [p \in Procs |-> NoErr]
    /\ cOutcomes = [p \in Procs |-> <<>>]
    /\ cSleeps = [p \in Procs |-> <<>>]
    /\ cCall = [p \in Procs |-> NoCall]
    /\ cRet = [p \in Procs |-> NoRet]

\* NewClaudeAPI, and the goroutines of `callers` about to call Invoke, each
\* with arguments from `inputs`
NewClaudeAPI(callers, inputs, retries, delays) ==
    /\ cMaxRetries \in retries
    /\ cRetryDelay \in delays
    /\ token = NilToken
    /\ mtx = 0
    /\ now = 0
    /\ issued = 0
    /\ provContacts = 0
    /\ provFails = 0
    /\ cPc = [p \in Procs |-> IF p \in callers THEN "Invoke" ELSE "off"]
    /\ cIn \in [Procs -> inputs]
    /\ \A p \in Procs \ callers : cIn[p].imgs = <<>>
    /\ cMsgs = [p \in Procs |-> <<>>]
    /\ cReads = [p \in Procs |-> 0]
    /\ cPayload = [p \in Procs |-> NoRequest]
    /\ cI = [p \in Procs |-> 0]
    /\ cTok = [p \in Procs |-> 0]
    /\ cBody = [p \in Procs |-> NoBody]
    /\ cErr = [p \in Procs |-> NoErr]
    /\ cOutcomes = [p \in Procs |-> <<>>]
    /\ cSleeps = [p \in Procs |-> <<>>]
    /\ cCall = [p \in Procs |-> NoCall]
    /\ cRet = [p \in Procs |-> NoRet]

\* NewClaudeAPI, and the goroutines of `callers` about to call
\* invokeMessages, each with messages from `msgs`
NewClaudeAPIMessages(callers, msgs, retries, delays) ==
    /\ cMaxRetries \in retries
    /\ cRetryDelay \in delays
    /\ token = NilToken
    /\ mtx = 0
    /\ now = 0
    /\ issued = 0
    /\ provContacts = 0
    /\ provFails = 0
    /\ cPc = [p \in Procs |-> IF p \in callers THEN "invokeMessages" ELSE "off"]
    /\ cIn = [p \in Procs |-> [prompts |-> <<>>, imgs |-> <<>>]]
    /\ \E f \in [callers -> msgs] : cMsgs = [p \in Procs |-> IF p \in callers THEN f[p] ELSE <<>>]
    /\ cReads = [p \in Procs |-> 0]
    /\ cPayload = [p \in Procs |-> NoRequest]
    /\ cI = [p \in Procs |-> 0]
    /\ cTok = [p \in Procs |-> 0]
    /\ cBody = [p \in Procs |-> NoBody]
    /\ cErr = [p \in Procs |-> NoErr]
    /\ cOutcomes = [p \in Procs |-> <<>>]
    /\ cSleeps = [p \in Procs |-> <<>>]
    /\ cCall = [p \in Procs |-> NoCall]
    /\ cRet = [p \in Procs |-> NoRet]

\* the loop condition of callClaudeModel: another round, or fall out of the loop
LoopHead(i, maxRetries) == IF i <= maxRetries THEN "lock" ELSE "called"

\* err of callClaudeModel when the loop condition sends it to `pc`
LoopErr(pc, err) == IF pc = "called" THEN <<Frame("unreachable", 0)>> ELSE err

\* Invoke, up to the call of invokeMessages
Invoke_Build(p) ==
    /\ cPc[p] = "Invoke"
    /\ LET bm == buildMessages(cIn[p].prompts, cIn[p].imgs) IN
        /\ cReads' = [cReads EXCEPT ![p] = bm.reads]
        /\ IF bm.err # NoErr
           THEN /\ cRet' = [cRet EXCEPT ![p] = [str |-> NoStr, err |-> bm.err]]
                /\ cPc' = [cPc EXCEPT ![p] = "done"]
                /\ cMsgs' = cMsgs
           ELSE /\ cMsgs' = [cMsgs EXCEPT ![p] = bm.messages]
                /\ cPc' = [cPc EXCEPT ![p] = "invokeMessages"]
                /\ cRet' = cRet
    /\ UNCHANGED <<cMaxRetries, cRetryDelay, token, mtx, now, issued, provContacts, provFails, cIn, cI,
                   cPayload, cErr, cTok, cBody, cOutcomes, cSleeps, cCall>>
    /\ UNCHANGED gvars

\* invokeMessages, up to the call of callClaudeModel
invokeMessages_Build(p) ==
    /\ cPc[p] = "invokeMessages"
    /\ LET rq == buildClaudeRequest(cMsgs[p])
           head == LoopHead(0, cMaxRetries)
       IN
        IF rq.err # NoErr
        THEN /\ cRet' = [cRet EXCEPT ![p] =
                     [str |-> NoStr, err |-> Wrap("failed to build request", 0, rq.err)]]
             /\ cPc' = [cPc EXCEPT ![p] = "done"]
             /\ UNCHANGED <<cPayload, cErr>>
        ELSE /\ cPayload' = [cPayload EXCEPT ![p] = rq.request]
             /\ cPc' = [cPc EXCEPT ![p] = head]
             /\ cErr' = [cErr EXCEPT ![p] = LoopErr(head, NoErr)]
             /\ cRet' = cRet
    /\ UNCHANGED <<cMaxRetries, cRetryDelay, cMsgs, token, mtx, now, issued, provContacts, provFails,
                   cIn, cReads, cI, cTok, cBody, cOutcomes, cSleeps, cCall>>
    /\ UNCHANGED gvars

\* a slip of MtxFree: Lock never waits
MtxNeverHeld(m) == TRUE

\* a.TokenMtx.Lock() returns
MtxFree(m) == m = 0

\* a slip of DeferredUnlock: the mutex is released on the success paths only
UnlockOnSuccessOnly(holder, err) == IF err = NoErr THEN 0 ELSE holder

\* defer a.TokenMtx.Unlock(): runs on every return of getAccessToken, whatever
\* err that return carries
DeferredUnlock(holder, err) == 0

\* a slip of StoreToken: the access token alone is replaced, the expiry kept
StoreAccessOnly(old, new, err) == IF err # NoErr THEN old ELSE [old EXCEPT !.access = new.access]

\* a.Token after getAccessToken has heard the provider: a.Token = token is
\* reached only when neither provider call failed
StoreToken(old, new, err) == IF err # NoErr THEN old ELSE new

\* a slip of CacheHit: the comparison the wrong way round
CacheHitInverted(tok, t) == tok # NilToken /\ tok.expiry < t

\* a.Token != nil && !a.Token.Expiry.Before(time.Now())
CacheHit(tok, t) == tok # NilToken /\ ~(tok.expiry < t)

\* a slip of callStep: the last failure sleeps too, before giving up
callStepSleepsBeforeGivingUp(err, i, maxRetries) ==
    IF err = NoErr THEN "return" ELSE "sleep"

\* what one round of callClaudeModel does with the answer of callClaudeModelInternal
callStep(err, i, maxRetries) ==
    IF err = NoErr THEN "return"
    ELSE IF i = maxRetries THEN "exhausted"
    ELSE "sleep"

\* callClaudeModel, from the failure `e` of the attempt to its sleep or return
AttemptFailed(p, e, class) ==
    LET step == callStep(e, cI[p], cMaxRetries) IN
    /\ cOutcomes' = [cOutcomes EXCEPT ![p] = Append(@, class)]
    /\ cErr' = [cErr EXCEPT ![p] =
            IF step = "exhausted" THEN Wrap("failed after %d retries", cMaxRetries, e) ELSE e]
    /\ cPc' = [cPc EXCEPT ![p] = IF step = "sleep" THEN "sleep" ELSE "called"]

\* getAccessToken, from Lock to the cached token or to the call of the provider
getAccessToken_Enter(p) ==
    /\ cPc[p] = "lock"
    /\ MtxFree(mtx)
    /\ IF CacheHit(token, now)
       THEN /\ mtx' = DeferredUnlock(p, NoErr)
            /\ cTok' = [cTok EXCEPT ![p] = token.access]
            /\ cCall' = [cCall EXCEPT ![p] = [done |-> TRUE, cached |-> token, at |-> now,
                                              contacted |-> FALSE, access |-> token.access]]
            /\ cPc' = [cPc EXCEPT ![p] = "Do"]
            /\ UNCHANGED provContacts
       ELSE /\ mtx' = p
            /\ cCall' = [cCall EXCEPT ![p] = [done |-> FALSE, cached |-> token, at |-> now,
                                              contacted |-> TRUE, access |-> 0]]
            /\ provContacts' = provContacts + 1
            /\ cPc' = [cPc EXCEPT ![p] = "provider"]
            /\ cTok' = cTok
    /\ UNCHANGED <<cMaxRetries, cRetryDelay, cMsgs, token, now, issued, provFails, cIn, cReads, cPayload, cI,
                   cBody, cErr, cOutcomes, cSleeps, cRet>>
    /\ UNCHANGED gvars

\* getAccessToken, from the provider's answer to Unlock and return; on an
\* error callClaudeModelInternal returns it to callClaudeModel
getAccessToken_Provider(p, w) ==
    /\ cPc[p] = "provider"
    /\ \E out \in ProviderOutcomes(w.credErrs) :
        /\ mtx' = DeferredUnlock(p, out.err)
        /\ token' = StoreToken(token, Token(issued + 1, now + out.ttl), out.err)
        /\ IF out.err # NoErr
           THEN /\ provFails' = provFails + 1
                /\ cCall' = [cCall EXCEPT ![p] = NoCall]
                /\ AttemptFailed(p, Wrap("failed to get access token", 0, out.err), "cred")
                /\ UNCHANGED <<issued, cTok>>
           ELSE /\ issued' = issued + 1
                /\ cTok' = [cTok EXCEPT ![p] = issued + 1]
                /\ cCall' = [cCall EXCEPT ![p].done = TRUE, ![p].access = issued + 1]
                /\ cPc' = [cPc EXCEPT ![p] = "Do"]
                /\ UNCHANGED <<provFails, cErr, cOutcomes>>
    /\ UNCHANGED <<cMaxRetries, cRetryDelay, cMsgs, now, provContacts, cIn, cReads, cPayload, cI, cBody, cSleeps, cRet>>
    /\ UNCHANGED gvars

\* callClaudeModelInternal, from the POST to its return, and callClaudeModel
\* up to its sleep or return
callClaudeModelInternal_Do(p, w) ==
    /\ cPc[p] = "Do"
    /\ cTok' = [cTok EXCEPT ![p] = 0]
    /\ cCall' = [cCall EXCEPT ![p] = NoCall]
    /\ \E out \in PostOutcomes(w.bodies, w.errs) :
        IF out.err = NoErr
        THEN /\ cBody' = [cBody EXCEPT ![p] = [id |-> Len(cOutcomes[p]) + 1,
                                               wellFormed |-> out.body.wellFormed,
                                               content |-> out.body.content]]
             /\ cOutcomes' = [cOutcomes EXCEPT ![p] = Append(@, "ok")]
             /\ cErr' = [cErr EXCEPT ![p] = NoErr]
             /\ cPc' = [cPc EXCEPT ![p] = "called"]
        ELSE /\ AttemptFailed(p,
                    IF out.err = TransportErr THEN Wrap("http request failed", 0, out.err)
                    ELSE out.err,
                    Class(out.err))
             /\ cBody' = cBody
    /\ UNCHANGED <<cMaxRetries, cRetryDelay, cMsgs, token, mtx, now, issued, provContacts, provFails, cIn, cReads,
                   cPayload, cI, cSleeps, cRet>>
    /\ UNCHANGED gvars

\* callClaudeModel, time.Sleep and the next round of the loop
callClaudeModel_Sleep(p) ==
    /\ cPc[p] = "sleep"
    /\ LET head == LoopHead(cI[p] + 1, cMaxRetries) IN
        /\ cSleeps' = [cSleeps EXCEPT ![p] = Append(@, Delay(cRetryDelay, cI[p]))]
        /\ cI' = [cI EXCEPT ![p] = @ + 1]
        /\ cPc' = [cPc EXCEPT ![p] = head]
        /\ cErr' = [cErr EXCEPT ![p] = LoopErr(head, @)]
    /\ UNCHANGED <<cMaxRetries, cRetryDelay, cMsgs, token, mtx, now, issued, provContacts, provFails, cIn, cReads,
                   cPayload, cTok, cBody, cOutcomes, cCall, cRet>>
    /\ UNCHANGED gvars

\* invokeMessages, from the return of callClaudeModel to the return of Invoke
invokeMessages_Result(p) ==
    /\ cPc[p] = "called"
    /\ LET parsed == parseResponseContent(cBody[p].content) IN
       cRet' = [cRet EXCEPT ![p] =
            IF cErr[p] # NoErr
            THEN [str |-> NoStr, err |-> Wrap("failed to call claude model", 0, cErr[p])]
            ELSE IF ~cBody[p].wellFormed
            THEN [str |-> NoStr, err |-> <<Frame("failed to unmarshal response", 0)>>]
            ELSE IF parsed.err # NoErr
            THEN [str |-> NoStr, err |-> Wrap("failed to parse response content", 0, parsed.err)]
            ELSE [str |-> parsed.str, err |-> NoErr]]
    /\ cPc' = [cPc EXCEPT ![p] = "done"]
    /\ cBody' = [cBody EXCEPT ![p] = NoBody]
    /\ cErr' = [cErr EXCEPT ![p] = NoErr]
    /\ UNCHANGED <<cMaxRetries, cRetryDelay, cMsgs, token, mtx, now, issued, provContacts, provFails, cIn, cReads,
                   cPayload, cI, cTok, cOutcomes, cSleeps, cCall>>
    /\ UNCHANGED gvars

\* the clock advances. Only getAccessToken reads it (time.Now() in its test,
\* and the provider stamping the expiry), so the steps taken while no
\* goroutine is about to read it are left out: they change nothing observed.
Tick ==
    /\ \E p \in Procs : cPc[p] \in {"lock", "provider"}
    /\ now < MaxTime
    /\ now' = now + 1
    /\ UNCHANGED <<cMaxRetries, cRetryDelay, cMsgs, token, mtx, issued, provContacts, provFails, cPc, cIn, cReads,
                   cPayload, cI, cTok, cBody, cErr, cOutcomes, cSleeps, cCall, cRet>>
    /\ UNCHANGED gvars

ClaudeNext(w) ==
    \/ \E p \in Procs : Invoke_Build(p)
    \/ \E p \in Procs : invokeMessages_Build(p)
    \/ \E p \in Procs : getAccessToken_Enter(p)
    \/ \E p \in Procs : getAccessToken_Provider(p, w)
    \/ \E p \in Procs : callClaudeModelInternal_Do(p, w)
    \/ \E p \in Procs : callClaudeModel_Sleep(p)
    \/ \E p \in Procs : invokeMessages_Result(p)
    \/ Tick

\* ----------------------------------------------------------- specifications
vars == <<gvars, cvars>>

\* the values a.RetryDelay is given
Delays == {1, 3}

\* Spec: one invocation, of a GeminiAPI of either file or of a ClaudeAPI, with
\* any arguments and any answers of the backend, of the credential provider
\* and of the download
AnyWorld == World(BodySet, AttemptErrors, {CredsErr, TokenSourceErr})

AnyGemini == GeminiWorld(AttemptOutcomes, Faults)

Init ==
    \/ /\ NewGeminiAPI("gemini.go", {1}, SeqsUpTo(InputSet, MaxInputs), -1..MaxRetriesBound, Delays)
       /\ ClaudeOff
    \/ /\ NewGeminiAPI("genai.go", {1}, {<<TextInput("a")>>}, -1..MaxRetriesBound, Delays)
       /\ ClaudeOff
    \/ /\ GeminiOff
       /\ NewClaudeAPI({1}, ClaudeInputs(MaxImgs), -1..MaxRetriesBound, Delays)

Next == GeminiNext(AnyGemini) \/ ClaudeNext(AnyWorld)

Spec == Init /\ [][Next]_vars

\* SpecShared: NumProcs goroutines invoking one ClaudeAPI built with no retry or
\* with one (one sleep is what it takes for a goroutine to wait while another
\* runs), each with a prompt alone, the backend answering 200 or 429 and the
\* provider failing one way
SharedWorld == World({HelloBody}, {BackendErr(429)}, {CredsErr})

InitShared == GeminiOff /\ NewClaudeAPI(Procs, ClaudeInputs(0), {0, 1}, {1})

NextShared == ClaudeNext(SharedWorld)

SpecShared == InitShared /\ [][NextShared]_vars

\* SpecRace: NumProcs goroutines invoking one GeminiAPI of either file, built
\* with MaxRetries -1, 0 or 1, each with one text, the backend answering a text
\* or 429
RaceWorld == GeminiWorld({[err |-> NoErr, candidates |-> <<<<"Hello">>>>],
                          [err |-> BackendErr(429), candidates |-> <<>>]}, {"none"})

InitRace ==
    /\ \E file \in {"gemini.go", "genai.go"} :
        NewGeminiAPI(file, Procs, {<<TextInput("a")>>}, {-1, 0, 1}, {1})
    /\ ClaudeOff

NextRace == GeminiNext(RaceWorld)

SpecRace == InitRace /\ [][NextRace]_vars

\* SpecLive: the goroutines run as long as one of them can take a step
\* (the scheduler runs a runnable goroutine; every call that is made
\* returns): one goroutine invoking a GeminiAPI of either file, built with
\* MaxRetries -1 to 2, or two goroutines invoking one ClaudeAPI built with
\* MaxRetries 0 or 1
InitLive ==
    \/ /\ \E file \in {"gemini.go", "genai.go"} :
            NewGeminiAPI(file, {1}, {<<TextInput("a")>>}, -1..2, {1})
       /\ ClaudeOff
    \/ /\ GeminiOff
       /\ NewClaudeAPI({1, 2}, ClaudeInputs(0), {0, 1}, {1})

NextLive == GeminiNext(RaceWorld) \/ ClaudeNext(SharedWorld)

SpecLive == InitLive /\ [][NextLive]_vars /\ WF_vars(NextLive)

\* SpecBlobs: one goroutine calling Invoke with one blob, of every kind of
\* path the world holds (or InvokeText of genai.go with a prompt)
PathSet ==
    {LocalJpeg, LocalRaw, LocalMissing, LocalBare, LocalShot,
     RemotePng, RemoteGone, RemoteShot, RemoteDump,
     ObjectMp4, ObjectClip, ObjectUntyped, ObjectBare, ObjectGone}

BlobWorld == GeminiWorld({[err |-> NoErr, candidates |-> <<<<"Hello">>>>],
                          [err |-> BackendErr(429), candidates |-> <<>>]}, Faults)

InitBlobs ==
    /\ \/ NewGeminiAPI("gemini.go", {1}, {<<BlobInput(q)>> : q \in PathSet}, {-1, 0, 1}, {1})
       \/ NewGeminiAPI("genai.go", {1}, {<<TextInput("a")>>}, {-1, 0, 1}, {1})
    /\ ClaudeOff

NextBlobs == GeminiNext(BlobWorld)

SpecBlobs == InitBlobs /\ [][NextBlobs]_vars

\* SpecMessages: one goroutine calling invokeMessages with up to MaxMsgs
\* messages, system messages among them, or Invoke with a prompt; the
\* ClaudeAPI is built with no retry or with one
MessageSet ==
    {Message("user", <<ContentText("describe")>>),
     Message("user", <<ContentText("more"), ContentImage(Data("jpegBytes", "image/jpeg"))>>),
     Message("system", <<ContentText("be brief")>>),
     Message("system", <<ContentText("be kind"), ContentText("be short")>>),
     Message("system", <<ContentImage(Data("jpegBytes", "image/jpeg")), ContentText("be brief")>>),
     Message("system", <<ContentImage(Data("jpegBytes", "image/jpeg"))>>)}

InitMessages ==
    /\ GeminiOff
    /\ \/ NewClaudeAPIMessages({1}, SeqsUpTo(MessageSet, MaxMsgs), {0, 1}, {1})
       \/ NewClaudeAPI({1}, ClaudeInputs(0), {0, 1}, {1})

NextMessages == ClaudeNext(SharedWorld)

SpecMessages == InitMessages /\ [][NextMessages]_vars

\* ------------------------------------------------------------------ claims
AllRetryable(h) == \A k \in 1..Len(h) : h[k] = "retryable"

\* err, or one of the errors it wraps, is the frame (m, k)
Names(err, m, k) == \E j \in 1..Len(err) : err[j] = Frame(m, k)

\* C1: with maxRetries N >= 0 and every attempt failing with an overload /
\* rate-limit error, the retry loop of either client makes N+1 attempts, sleeps
\* N times and returns an error naming N.
C1_ExhaustionAfterNPlusOneAttempts ==
    /\ \A p \in Procs :
        (gMaxRetries >= 0 /\ gOutcomes[p] # <<>> /\ AllRetryable(gOutcomes[p])) =>
            /\ Len(gOutcomes[p]) <= gMaxRetries + 1
            /\ Len(gSleeps[p]) <= gMaxRetries
            /\ gPc[p] \in {"returned", "done"} =>
                /\ Len(gOutcomes[p]) = gMaxRetries + 1
                /\ Len(gSleeps[p]) = gMaxRetries
            /\ gPc[p] = "returned" =>
                gErr[p][1] = Frame("max retries reached after %d attempts", gMaxRetries)
            /\ gPc[p] = "done" =>
                Names(gRet[p].err, "max retries reached after %d attempts", gMaxRetries)
    /\ \A p \in Procs :
        (cMaxRetries >= 0 /\ cOutcomes[p] # <<>> /\ AllRetryable(cOutcomes[p])) =>
            /\ Len(cOutcomes[p]) <= cMaxRetries + 1
            /\ Len(cSleeps[p]) <= cMaxRetries
            /\ cPc[p] \in {"called", "done"} =>
                /\ Len(cOutcomes[p]) = cMaxRetries + 1
                /\ Len(cSleeps[p]) = cMaxRetries
            /\ cPc[p] = "called" => cErr[p][1] = Frame("failed after %d retries", cMaxRetries)
            /\ cPc[p] = "done" => Names(cRet[p].err, "failed after %d retries", cMaxRetries)

\* a GeminiAPI with the largest MaxRetries has returned after nothing but
\* overload errors
C1_Witness ==
    /\ gPc[1] = "done"
    /\ gFile = "gemini.go"
    /\ gMaxRetries = MaxRetriesBound
    /\ Len(gOutcomes[1]) = MaxRetriesBound + 1
    /\ AllRetryable(gOutcomes[1])

\* C2: when the first attempt fails with an error outside the overload /
\* rate-limit class, that attempt is the only one and no backoff sleep happens,
\* whatever maxRetries is.
C2_FatalFirstAttemptIsTheOnlyOne ==
    /\ \A p \in Procs :
        (gFile = "gemini.go" /\ gOutcomes[p] # <<>> /\ gOutcomes[p][1] = "fatal") =>
            Len(gOutcomes[p]) = 1 /\ gSleeps[p] = <<>> /\ gPc[p] # "sleep"
    /\ \A p \in Procs :
        (cOutcomes[p] # <<>> /\ cOutcomes[p][1] = "fatal") =>
            Len(cOutcomes[p]) = 1 /\ cSleeps[p] = <<>> /\ cPc[p] # "sleep"

\* C3: when attempt k is the first to succeed, k attempts and k-1 sleeps have
\* happened, the response of attempt k is the one returned, and neither a sleep
\* nor an attempt follows the success.
C3_FirstSuccessEndsTheLoop ==
    /\ \A p \in Procs : \A k \in 1..Len(gOutcomes[p]) : gOutcomes[p][k] = "ok" =>
        /\ k = Len(gOutcomes[p])
        /\ k <= gMaxRetries + 1
        /\ Len(gSleeps[p]) = k - 1
        /\ gPc[p] \in {"returned", "done"}
        /\ gResp[p].id = k
        /\ gErr[p] = NoErr
    /\ \A p \in Procs : \A k \in 1..Len(cOutcomes[p]) : cOutcomes[p][k] = "ok" =>
        /\ k = Len(cOutcomes[p])
        /\ k <= cMaxRetries + 1
        /\ Len(cSleeps[p]) = k - 1
        /\ cPc[p] \in {"called", "done"}
        /\ cPc[p] = "called" => cBody[p].id = k /\ cErr[p] = NoErr
        /\ cPc[p] = "done" => ~Names(cRet[p].err, "failed to call claude model", 0)

\* a GeminiAPI has returned the answer of its second attempt
C3_Witness ==
    /\ gPc[1] = "done"
    /\ gFile = "gemini.go"
    /\ gOutcomes[1] = <<"retryable", "ok">>
    /\ Len(gSleeps[1]) = 1
    /\ gRet[1] = [str |-> Str("Hello"), err |-> NoErr]

\* a getAccessToken call that has returned a token or is with the provider
InGetAccessToken(p) == cPc[p] \in {"Do", "provider"}

\* C4: getAccessToken returns the cached token without contacting the provider
\* exactly when a token is cached and its expiry is strictly after the current
\* time; with the expiry equal to the current time the provider is contacted.
C4_CacheUsedIffExpiryStrictlyAfterNow ==
    \A p \in Procs : InGetAccessToken(p) =>
        /\ ~cCall[p].contacted <=>
                (cCall[p].cached # NilToken /\ cCall[p].cached.expiry > cCall[p].at)
        /\ ~cCall[p].contacted => cTok[p] = cCall[p].cached.access

\* C5: whenever a token is cached and its expiry is after the current time,
\* getAccessToken contacts the provider zero times and returns the cached
\* access token.
C5_ValidCacheNeverContactsProvider ==
    \A p \in Procs :
        (InGetAccessToken(p) /\ cCall[p].cached # NilToken
                             /\ cCall[p].cached.expiry > cCall[p].at) =>
            /\ ~cCall[p].contacted
            /\ cPc[p] = "Do"
            /\ cTok[p] = cCall[p].cached.access

\* a getAccessToken call has returned the token an earlier call had cached
C5_Witness ==
    \E p \in Procs :
        /\ cPc[p] = "Do"
        /\ cCall[p].cached # NilToken
        /\ cCall[p].cached.expiry > cCall[p].at
        /\ cTok[p] = cCall[p].cached.access
        /\ provContacts = 1

\* C6: with the cache empty or its token expired (not usable: now >= expiry) and
\* the provider succeeding, getAccessToken contacts the provider once, stores
\* the new token and returns it; a later call that finds the token still valid
\* contacts the provider zero times and returns the same token.
C6_MissRefreshesOnceThenHits ==
    \A p \in Procs : cPc[p] = "Do" =>
        /\ (cCall[p].cached = NilToken \/ cCall[p].cached.expiry <= cCall[p].at) =>
            /\ cCall[p].contacted
            /\ cTok[p] = token.access
            /\ cTok[p] # cCall[p].cached.access
        /\ (cCall[p].cached # NilToken /\ cCall[p].cached.expiry > cCall[p].at) =>
            /\ ~cCall[p].contacted
            /\ cTok[p] = cCall[p].cached.access

\* C7: under every interleaving of concurrent getAccessToken calls at most one
\* goroutine is with the credential provider, and while the first token issued
\* is valid and no refresh has failed the provider has been contacted once.
C7_RefreshesAreSerialized ==
    /\ Cardinality({p \in Procs : cPc[p] = "provider"}) <= 1
    /\ \A p \in Procs : cPc[p] = "provider" => mtx = p
    /\ (provFails = 0 /\ token.access = 1 /\ now < token.expiry) => provContacts = 1

\* every goroutine has made an attempt with a token and the provider was
\* contacted once
C7_Witness ==
    /\ \A p \in Procs : cOutcomes[p] # <<>> /\ cOutcomes[p][1] # "cred"
    /\ provContacts = 1
    /\ provFails = 0

\* C8: a failure of getAccessToken during Invoke is never retried: no sleep and
\* no further attempt follows it, and Invoke returns the credential error.
C8_CredentialFailureNeverRetried ==
    \A p \in Procs : \A k \in 1..Len(cOutcomes[p]) : cOutcomes[p][k] = "cred" =>
        /\ k = Len(cOutcomes[p])
        /\ cPc[p] \in {"called", "done"}
        /\ cPc[p] = "done" => Names(cRet[p].err, "failed to get access token", 0)

\* C9: GeminiAPI.Invoke resolves its inputs in declaration order, one part per
\* input: the parts handed to the backend are the resolutions of the inputs, in
\* the order of the inputs.
C9_PartsFollowInputOrder ==
    \A p \in Procs :
        /\ Len(gParts[p]) = gIdx[p] - 1
        /\ \A i \in 1..Len(gParts[p]) : gParts[p][i] = Resolution(gInputs[p][i]).part
        /\ gOutcomes[p] # <<>> =>
            /\ Len(gSent[p]) = Len(gInputs[p])
            /\ \A i \in 1..Len(gInputs[p]) :
                Resolution(gInputs[p][i]).err = NoErr /\ gSent[p][i] = Resolution(gInputs[p][i]).part

\* blob, text went to the backend as blob, text
C9_Witness ==
    /\ gOutcomes[1] # <<>>
    /\ gInputs[1] = <<BlobInput(LocalJpeg), TextInput("a")>>
    /\ gSent[1] = <<BlobPart("image/jpeg", Data("jpegBytes", "image/jpeg")), TextPart("a")>>

\* the position of the first input whose resolution fails, 0 when none does
FirstFailing(inputs) ==
    LET bad == {i \in 1..Len(inputs) : Resolution(inputs[i]).err # NoErr} IN
    IF bad = {} THEN 0 ELSE CHOOSE i \in bad : \A j \in bad : i <= j

FirstUnreadable(imgs) ==
    LET bad == {i \in 1..Len(imgs) : ReadFile(imgs[i]).err # NoErr} IN
    IF bad = {} THEN 0 ELSE CHOOSE i \in bad : \A j \in bad : i <= j

\* C10: when the resolution of an input fails, the invocation returns that error
\* at once: no later input is resolved, no partial result is returned, no
\* backend attempt is made and no backoff sleep happens.
C10_InputFailureReturnsAtOnce ==
    /\ \A p \in Procs : LET k == FirstFailing(gInputs[p]) IN k > 0 =>
        /\ gCalls[p] <= k
        /\ gOutcomes[p] = <<>> /\ gSleeps[p] = <<>>
        /\ gPc[p] \in {"InitClient", "NewClient", "ToPart", "done"}
        /\ gCalls[p] = k =>
            /\ gPc[p] = "done"
            /\ gRet[p].err \in {ToPart(gInputs[p][k], f, {}, 1).err : f \in Faults}
        /\ gPc[p] = "done" => gRet[p].str = NoStr /\ gRet[p].err # NoErr
    /\ \A p \in Procs : LET k == FirstUnreadable(cIn[p].imgs) IN k > 0 =>
        /\ cReads[p] \in {0, k}
        /\ cOutcomes[p] = <<>> /\ cSleeps[p] = <<>> /\ provContacts = 0
        /\ cPc[p] \in {"Invoke", "done"}
        /\ cPc[p] = "done" =>
            /\ cReads[p] = k
            /\ cRet[p] = [str |-> NoStr,
                          err |-> Wrap("failed to read image file", 0, ReadFile(cIn[p].imgs[k]).err)]

\* the first of two inputs could not be read and Invoke returned
C10_Witness ==
    /\ gPc[1] = "done"
    /\ gInputs[1] = <<BlobInput(LocalMissing), TextInput("a")>>
    /\ gCalls[1] = 1
    /\ gRet[1].err # NoErr

\* C11: on every exit path of BlobInput.ToPart for a remote blob (status
\* outside 2xx, transport error, failure of the copy, failure of the re-read,
\* success) no temp file the call created exists when ToPart returns, hence
\* none when Invoke returns.
C11_NoTempFileOutlivesToPart ==
    /\ gTmp = {}
    /\ \A p \in Procs : gPc[p] = "done" => gTmp = {}

\* a first remote blob was downloaded and resolved, the re-read of the second
\* failed: two temp files were created and Invoke has returned
C11_Witness ==
    /\ gPc[1] = "done"
    /\ gInputs[1] = <<BlobInput(RemotePng), BlobInput(RemotePng)>>
    /\ gCreated = 2
    /\ Names(gRet[1].err, "failed to read downloaded file", 0)

\* C12: for a local or downloaded blob whose content sniffs as the generic
\* octet-stream type and whose extension maps to no MIME type, ToPart succeeds
\* and the part carries the generic octet-stream type, never an empty type.
C12_GenericTypeSurfaces ==
    \A p \in Procs : \A i \in 1..Len(gParts[p]) :
        gParts[p][i].kind = "blob" =>
            /\ gParts[p][i].mime # ""
            /\ (gParts[p][i].data.sniff = OctetStream
                    /\ TypeByExtension(gInputs[p][i].path.ext) = "") =>
                gParts[p][i].mime = OctetStream

\* the text-typed segments of a response, in response order
TextSegments(content) == SelectSeq(content, LAMBDA seg : seg.type = "text")

\* the texts of segs with one newline between neighbours, as the pieces of a string
NewlineJoined(segs) ==
    [i \in 1..(IF Len(segs) = 0 THEN 0 ELSE 2 * Len(segs) - 1) |->
        IF i % 2 = 1 THEN segs[(i + 1) \div 2].text ELSE "\n"]

\* C13: a successful ClaudeAPI invocation returns the texts of the text-typed
\* segments of the response, in response order, joined by single newlines;
\* segments of other types are skipped.
C13_TextSegmentsJoinedInOrder ==
    [][\A p \in Procs :
        (cPc[p] = "called" /\ cPc'[p] = "done" /\ cRet'[p].err = NoErr) =>
            cRet'[p].str = NewlineJoined(TextSegments(cBody[p].content))]_vars

\* an invocation has returned two texts with a newline between them
C13_Witness ==
    /\ cPc[1] = "done"
    /\ cRet[1] = [str |-> <<"Hello", "\n", "world">>, err |-> NoErr]

\* C14: a successful GeminiAPI.Invoke whose response carries several text
\* segments returns all of them, in order, joined by newlines (Hello, world
\* gives Hello, newline, world), not the first one alone.
C14_AllSegmentsReturned ==
    \A p \in Procs : (gPc[p] = "done" /\ gRet[p].err = NoErr) =>
        gRet[p].str = Join(gResp[p].candidates[1], "\n")

\* C15: when a successful backend response holds zero usable text segments,
\* Invoke (of ClaudeAPI and of GeminiAPI) returns an empty-result error, not an
\* empty string with no error, and makes no further attempt.
C15_EmptyResultIsAnError ==
    [][/\ \A p \in Procs :
            (/\ gPc[p] = "returned" /\ gPc'[p] = "done" /\ gErr[p] = NoErr
             /\ (Len(gResp[p].candidates) = 0 \/ Len(gResp[p].candidates[1]) = 0)) =>
                gRet'[p].err # NoErr /\ gOutcomes'[p] = gOutcomes[p]
       /\ \A p \in Procs :
            (/\ cPc[p] = "called" /\ cPc'[p] = "done" /\ cErr[p] = NoErr
             /\ cBody[p].wellFormed /\ TextSegments(cBody[p].content) = <<>>) =>
                cRet'[p].err # NoErr /\ cOutcomes'[p] = cOutcomes[p]]_vars

\* C16: in GeminiAPI.Invoke the first deadline error ends the invocation,
\* whatever maxRetries is: once the deadline of the invocation has passed no
\* backend attempt and no backoff sleep is started.
C16_DeadlineEndsInvocation ==
    \A p \in Procs : \A k \in 1..Len(gOutcomes[p]) : gOutcomes[p][k] = "deadline" =>
        /\ k = Len(gOutcomes[p])
        /\ Len(gSleeps[p]) = k - 1
        /\ gPc[p] \in {"returned", "done"}

\* C17: when the deadline of the invocation passes (or it is cancelled) while
\* the retry loop is in a backoff sleep, the sleep does not run to its end and
\* no further attempt follows it: the operation returns a cancellation error.
C17_SleepIsInterruptible ==
    [][\A p \in Procs : (gPc[p] = "sleep" /\ gExpired[p]) =>
            /\ Len(gSleeps'[p]) = Len(gSleeps[p])
            /\ gPc'[p] # "retry"
            /\ Len(gOutcomes'[p]) = Len(gOutcomes[p])]_vars

\* C18: concurrent Invoke calls on one GeminiAPI are safe: in every
\* interleaving the client field is created and written at most once, no two
\* callers both finding it unset and both creating and storing a client.
C18_ClientCreatedAtMostOnce ==
    /\ gStores <= 1
    /\ Cardinality({p \in Procs : gPc[p] = "NewClient"}) <= 1

\* C19: in genai.go an error is retried exactly when it is of the overload /
\* rate-limit class (status 429 or 529): such an error is followed by a sleep and
\* another attempt while retries remain, and an error of any other status ends
\* the call after that attempt with no sleep, whatever its text contains.
C19_RetriedIffOverload ==
    \A p \in Procs : gFile = "genai.go" =>
        \A k \in 1..Len(gOutcomes[p]) :
            /\ gOutcomes[p][k] = "fatal" =>
                /\ k = Len(gOutcomes[p])
                /\ Len(gSleeps[p]) = k - 1
                /\ gPc[p] \in {"returned", "done"}
            /\ k < Len(gOutcomes[p]) => gOutcomes[p][k] = "retryable"
            /\ (gOutcomes[p][k] = "retryable" /\ k <= gMaxRetries) =>
                \/ gPc[p] = "sleep" /\ k = Len(gOutcomes[p])
                \/ Len(gSleeps[p]) >= k

\* C20: the backoff sleep after the failed attempt of zero-based index i
\* (i < maxRetries) lasts initialDelay * 2^i: the sleeps of one invocation are
\* initialDelay, 2*initialDelay, 4*initialDelay, ..., whatever the errors were.
C20_SleepsDoubleFromInitialDelay ==
    /\ \A p \in Procs :
        /\ gSleeps[p] # <<>> => Len(gSleeps[p]) <= gMaxRetries
        /\ \A j \in 1..Len(gSleeps[p]) : gSleeps[p][j] = gRetryDelay * 2^(j - 1)
    /\ \A p \in Procs :
        /\ cSleeps[p] # <<>> => Len(cSleeps[p]) <= cMaxRetries
        /\ \A j \in 1..Len(cSleeps[p]) : cSleeps[p][j] = cRetryDelay * 2^(j - 1)

\* a GeminiAPI with RetryDelay 3 has slept 3, 6 and 12 after errors of two kinds
C20_Witness ==
    /\ gFile = "gemini.go"
    /\ gRetryDelay = 3
    /\ gSleeps[1] = <<3, 6, 12>>
    /\ gOutcomes[1][1] = "retryable"
    /\ gOutcomes[1][2] = "fatal"

\* C21: when retries are exhausted, the number the returned error names is the
\* number of attempts the invocation made, and the error wraps the error of
\* the last attempt.
C21_ExhaustionNamesAttemptsMade ==
    \A p \in Procs :
        (/\ gPc[p] = "returned"
         /\ gErr[p] # NoErr
         /\ gErr[p][1].msg = "max retries reached after %d attempts") =>
            /\ gErr[p][1].n = Len(gOutcomes[p])
            /\ Class(Tail(gErr[p])) = gOutcomes[p][Len(gOutcomes[p])]

\* C22: in any interleaving of concurrent ClaudeAPI.Invoke calls, an
\* invocation in a backoff sleep does not hold the token mutex: the mutex is
\* held by goroutines inside getAccessToken only, so while one sleeps another
\* can take it and make its own attempt.
C22_SleepHoldsNoLock ==
    /\ \A p \in Procs : cPc[p] = "sleep" => mtx # p
    /\ \A p \in Procs : mtx = p => cPc[p] = "provider"
    /\ (\A p \in Procs : cPc[p] # "provider") => MtxFree(mtx)

\* goroutine 1 sleeps after a failed refresh; goroutine 2 has since fetched a
\* token and made its attempt
C22_Witness ==
    /\ cPc[1] = "sleep"
    /\ cOutcomes[1] = <<"cred">>
    /\ cOutcomes[2] = <<"ok">>
    /\ provContacts = 2

\* C23: every attempt of callClaudeModel first calls getAccessToken and sends
\* the request with the token that call returned; when the cached token has
\* expired (now >= expiry) by the time of a later attempt, that attempt
\* refreshes it and does not send the expired token.
C23_EachAttemptSendsItsOwnToken ==
    \A p \in Procs : cPc[p] = "Do" =>
        /\ cCall[p].done
        /\ cTok[p] # 0
        /\ cTok[p] = cCall[p].access
        /\ (cCall[p].cached # NilToken /\ cCall[p].cached.expiry <= cCall[p].at) =>
            /\ cCall[p].contacted
            /\ cTok[p] # cCall[p].cached.access

\* C24: the cached token changes only by being replaced as a whole, by the
\* getAccessToken call whose provider fetch succeeded; a cache hit and a
\* provider failure leave token and expiry as they were, and no other step
\* writes the cache.
C24_CacheReplacedWholesaleOnRefreshOnly ==
    [][/\ token' # token =>
            \E p \in Procs :
                /\ cPc[p] = "provider" /\ cPc'[p] = "Do"
                /\ issued' = issued + 1
                /\ token' = Token(issued', now + TokenTTL)
                /\ token'.access # token.access
                /\ cTok'[p] = token'.access
       /\ \A p \in Procs : (cPc[p] = "lock" /\ cPc'[p] = "Do") => token' = token
       /\ provFails' # provFails => token' = token]_vars

\* a refresh failed while an expired token was cached: the token is still there
C24_Witness ==
    /\ cOutcomes[1] = <<"retryable", "cred">>
    /\ provFails = 1
    /\ token = Token(1, TokenTTL)
    /\ now > token.expiry

\* ---- C25
IsSystem(m) == m.role = "system"
NotSystem(m) == m.role # "system"
HasText(m) == \E k \in 1..Len(m.contents) : m.contents[k].type = "text"
FirstText(m) ==
    m.contents[CHOOSE k \in 1..Len(m.contents) :
        /\ m.contents[k].type = "text"
        /\ \A j \in 1..(k - 1) : m.contents[j].type # "text"].text
SystemMessages(msgs) == SelectSeq(msgs, IsSystem)
BuildFailed == Wrap("failed to build request", 0,
                    <<Frame("system message must contain text content", 0)>>)

\* C25: once invokeMessages has built its request, no message with role
\* system is in the request's messages list, the other messages are there
\* in their given order, and the system field holds the text of the system
\* message handled last (empty when there is none); when a system message
\* has no text content, invokeMessages has returned the build error
\* without an attempt and without asking for a token.
C25_SystemMessagesGoToSystemField ==
    \A p \in Procs :
        cPc[p] \notin {"off", "Invoke", "invokeMessages"} =>
            LET sys == SystemMessages(cMsgs[p]) IN
            IF \E k \in 1..Len(sys) : ~HasText(sys[k])
            THEN /\ cPc[p] = "done"
                 /\ cRet[p] = [str |-> NoStr, err |-> BuildFailed]
                 /\ cPayload[p] = NoRequest
                 /\ cOutcomes[p] = <<>>
                 /\ cCall[p] = NoCall
            ELSE /\ cPayload[p].messages = SelectSeq(cMsgs[p], NotSystem)
                 /\ \A k \in 1..Len(cPayload[p].messages) : NotSystem(cPayload[p].messages[k])
                 /\ cPayload[p].system =
                        IF sys = <<>> THEN NoStr ELSE Str(FirstText(sys[Len(sys)]))
                 /\ cRet[p].err # BuildFailed

\* a system message between two others went to the system field and the
\* request was sent; elsewhere a system message without text ended the call
C25_Witness ==
    \E p \in Procs :
        /\ cPc[p] = "done"
        /\ Len(cMsgs[p]) = 2
        /\ IsSystem(cMsgs[p][1])
        /\ NotSystem(cMsgs[p][2])
        /\ cPayload[p].system = Str("be brief")
        /\ cPayload[p].messages = <<cMsgs[p][2]>>
        /\ Len(cOutcomes[p]) >= 1
        /\ cRet[p].err = NoErr

C25_WitnessNoText ==
    \E p \in Procs :
        /\ cPc[p] = "done"
        /\ \E k \in 1..Len(cMsgs[p]) : IsSystem(cMsgs[p][k]) /\ ~HasText(cMsgs[p][k])
        /\ cRet[p].err = BuildFailed
        /\ provContacts = 0

\* ---- C26
IsObject(in) == in.kind = "blob" /\ in.path.scheme = "gs"
IsRemote(in) == in.kind = "blob" /\ in.path.scheme = "http"
IsLocal(in) == in.kind = "blob" /\ in.path.scheme = "local"
\* the ToPart calls made so far on remote inputs, the only ones that download
RemoteCalls == {c \in Procs \X (1..MaxInputs + 1) :
                   /\ c[2] <= gCalls[c[1]]
                   /\ c[2] <= Len(gInputs[c[1]])
                   /\ IsRemote(gInputs[c[1]][c[2]])}
ObjectErr(path) ==
    Wrap("failed to get GCS file mime type", 0,
         Wrap("failed to get GCS object attributes", 0, ObjectAttrs(path).err))

\* C26: an input with a gs:// path that ToPart has been called on is in the
\* parts as a file reference whose URI is the input's path, carrying no bytes,
\* with the stored content type as mime type when that is non-empty and the
\* type of the path's extension otherwise; when the metadata cannot be
\* fetched Invoke has returned that error and no part stands for the input;
\* temp files are created by calls on remote inputs only.
C26_ObjectInputsAreReferenced ==
    /\ Cardinality(RemoteCalls) >= gCreated
    /\ \A p \in Procs : \A k \in 1..Len(gInputs[p]) :
        (gFile = "gemini.go" /\ IsObject(gInputs[p][k]) /\ gCalls[p] >= k) =>
            LET path == gInputs[p][k].path
                attrs == ObjectAttrs(path)
            IN
            IF attrs.err # NoErr
            THEN /\ gPc[p] = "done"
                 /\ Len(gParts[p]) = k - 1
                 /\ gRet[p] = [str |-> NoStr, err |-> ObjectErr(path)]
            ELSE /\ Len(gParts[p]) >= k
                 /\ gParts[p][k].kind = "fileData"
                 /\ gParts[p][k].uri = path
                 /\ gParts[p][k].data = NoData
                 /\ gParts[p][k].mime =
                        IF attrs.contentType # "" THEN attrs.contentType
                        ELSE TypeByExtension(path.ext)

\* an object stored as video/mp4 under a .png name went out as video/mp4
C26_Witness ==
    \E p \in Procs :
        /\ gInputs[p] = <<BlobInput(ObjectClip)>>
        /\ gPc[p] = "done"
        /\ gSent[p] = <<FileDataPart("video/mp4", ObjectClip)>>
        /\ gRet[p].err = NoErr
        /\ gCreated = 0

\* an object without a stored content type got the type of its extension
C26_WitnessFallback ==
    \E p \in Procs :
        /\ gInputs[p] = <<BlobInput(ObjectUntyped)>>
        /\ gParts[p] = <<FileDataPart("image/png", ObjectUntyped)>>

\* an object whose metadata cannot be fetched ended the call
C26_WitnessGone ==
    \E p \in Procs :
        /\ gInputs[p] = <<BlobInput(ObjectGone)>>
        /\ gPc[p] = "done"
        /\ gParts[p] = <<>>
        /\ gRet[p].err = ObjectErr(ObjectGone)

\* ---- C27
\* the bytes behind a local or a remote path
BytesOf(path) == IF path.scheme = "http" THEN HttpGet(path).data ELSE ReadFile(path).data

\* C27: a local or downloaded blob that made it into the parts carries its
\* bytes and, when sniffing them gives a specific type, that type, whatever
\* the extension of its path; the type of the extension stands only when
\* sniffing gives application/octet-stream.
C27_SniffedTypeWinsOverExtension ==
    \A p \in Procs : \A k \in 1..Len(gParts[p]) :
        (gFile = "gemini.go" /\ (IsLocal(gInputs[p][k]) \/ IsRemote(gInputs[p][k]))) =>
            LET path == gInputs[p][k].path
                d == BytesOf(path)
            IN
            /\ gParts[p][k].kind = "blob"
            /\ gParts[p][k].data = d
            /\ d.sniff # OctetStream => gParts[p][k].mime = d.sniff
            /\ d.sniff = OctetStream => gParts[p][k].mime = TypeByExtension(path.ext)

\* JPEG bytes under a .png name, read locally, went out as image/jpeg
C27_Witness ==
    \E p \in Procs :
        /\ gInputs[p] = <<BlobInput(LocalShot)>>
        /\ gPc[p] = "done"
        /\ gSent[p] = <<BlobPart("image/jpeg", Data("jpegBytes", "image/jpeg"))>>
        /\ TypeByExtension(LocalShot.ext) = "image/png"

\* JPEG bytes without an extension; downloaded JPEG bytes under a .png name;
\* downloaded bytes of no known type under a .mp4 name
C27_WitnessBare ==
    \E p \in Procs :
        /\ gInputs[p] = <<BlobInput(LocalBare)>>
        /\ gParts[p] = <<BlobPart("image/jpeg", Data("jpegBytes", "image/jpeg"))>>

C27_WitnessRemote ==
    \E p \in Procs :
        /\ gInputs[p] = <<BlobInput(RemoteShot)>>
        /\ gParts[p] = <<BlobPart("image/jpeg", Data("jpegBytes", "image/jpeg"))>>

C27_WitnessGeneric ==
    \E p \in Procs :
        /\ gInputs[p] = <<BlobInput(RemoteDump)>>
        /\ gParts[p] = <<BlobPart("video/mp4", Data("rawBytes", OctetStream))>>

\* ---- C28
\* C28: whatever MaxRetries is, when retryableGenerateContent of gemini.go
\* has returned it has made at least one attempt and does not hand back a
\* nil response with a nil error, and Invoke never dereferences a nil
\* response.
C28_NeverNilResponseWithNilError ==
    \A p \in Procs :
        gFile = "gemini.go" =>
            /\ gPc[p] = "returned" =>
                /\ Len(gOutcomes[p]) >= 1
                /\ ~(gResp[p] = NilResp /\ gErr[p] = NoErr)
            /\ gPc[p] # "panic"

\* ---- C29
\* the attempts and the sleeps of every loop stay within MaxRetries + 1 and
\* MaxRetries, and the token mutex is held by a goroutine inside
\* getAccessToken only
C29_Bounded ==
    /\ \A p \in Procs :
        gMaxRetries >= 0 =>
            /\ Len(gOutcomes[p]) <= gMaxRetries + 1
            /\ Len(gSleeps[p]) <= gMaxRetries
    /\ \A p \in Procs :
        cMaxRetries >= 0 =>
            /\ Len(cOutcomes[p]) <= cMaxRetries + 1
            /\ Len(cSleeps[p]) <= cMaxRetries
    /\ mtx # 0 => cPc[mtx] = "provider"

\* C29: with MaxRetries >= 0 and every attempt and sleep returning, a retry
\* loop that has started ends with a response or an error, after at most
\* MaxRetries + 1 attempts and MaxRetries sleeps; the token mutex is held
\* only by a goroutine inside getAccessToken, whether its refresh fails or
\* not, so a goroutine waiting for the mutex gets it.
C29_RetryLoopsEndAndMutexIsReleased ==
    /\ []C29_Bounded
    /\ \A p \in Procs :
        (gMaxRetries >= 0 /\ gPc[p] = "retry") ~>
            (gPc[p] = "returned" /\ (gErr[p] # NoErr \/ gResp[p] # NilResp))
    /\ \A p \in Procs :
        (cMaxRetries >= 0 /\ cPc[p] \in {"lock", "provider", "Do", "sleep"}) ~>
            (cPc[p] = "called" /\ (cErr[p] # NoErr \/ cBody[p] # NoBody))
    /\ \A p \in Procs : (cPc[p] = "lock") ~> (cPc[p] # "lock")

\* one goroutine used up its attempts on refreshes that failed, with
\* MaxRetries + 1 attempts and MaxRetries sleeps, and another one got the
\* mutex afterwards and its answer
C29_Witness ==
    \E p, q \in Procs :
        /\ p # q
        /\ cMaxRetries = 1
        /\ cPc[p] = "done"
        /\ cOutcomes[p] = <<"cred", "cred">>
        /\ Len(cSleeps[p]) = 1
        /\ cPc[q] = "done"
        /\ cRet[q].err = NoErr
        /\ provFails >= 2
        /\ mtx = 0

\* the loop of GenerateContent used up MaxRetries + 1 attempts and MaxRetries sleeps
C29_WitnessGemini ==
    /\ gMaxRetries = 2
    /\ gPc[1] = "done"
    /\ Len(gOutcomes[1]) = 3
    /\ Len(gSleeps[1]) = 2
    /\ gRet[1].err # NoErr

====
